---- MODULE Spec2Model ----
(***************************************************************************)
(* A model of sqlitexx (src/include/sqlitexx.h): the scoped Transaction    *)
(* object with its commit retry loop, and the Statement row iterator.      *)
(* The SQL engine (sqlite3) is an external collaborator: its results are   *)
(* chosen nondeterministically among those it can return in the state it   *)
(* is in.                                                                  *)
(***************************************************************************)
EXTENDS Integers, Sequences, FiniteSets, TLC

\* ---------------------------------------------------------------- bounds
NumObjs == 2        \* Transaction objects a run may create
NumConns == 1       \* open connections (sqlite3*) a run may use
MaxBusy == 2        \* most consecutive SQLITE_BUSY answers to one call
MaxRows == 3        \* most rows a statement produces
NumStmts == 2       \* Statement objects a run may create
NumHandles == 3     \* prepared-statement handles the engine hands out
MaxParams == 2      \* most parameters of a statement
NumDBs == 2         \* DB objects a run may create
MaxOpens == 4       \* connection handles the engine hands out
MaxCols == 2        \* most columns of a statement's result
MaxSteps == 3       \* most sqlite3_step calls on one statement
UBits == 5          \* width of unsigned / int in bits
MaxArgv == 2        \* most arguments on the test runner's command line

NULL == 0           \* nullptr
LARGE_TEST == 1     \* enum { LARGE_TEST = 1, BENCHMARK = 2 }
BENCHMARK == 2

Objs == 1..NumObjs
Conns == 1..NumConns

\* ------------------------------------------------------------ Transaction
VARIABLES
    life,       \* life[o]: "none" (no object) | "dead" (destroyed) | a living object:
                \*   "fresh" (constructed, no member called since) | "alive"
                \*   | "rolled" (rollback() has been called on it) | "moved" (moved-from)
    db_,        \* Transaction::db_
    done_,      \* Transaction::done_
    own,        \* the engine transaction o is obliged to resolve ({} or {t})
    etxn,       \* engine: etxn[c] the transaction open on connection c ({} or {t})
    pc,         \* "idle" | "try_commit" (inside the for (;;) of try_commit)
                \*   | "over" (a call has just returned or thrown)
    call,       \* the call in progress
    last        \* what the step just taken did: statement sent, engine result,
                \*   outcome; the caller has it while pc = "over"

\* ---------------------------------------------------------------- Statement
VARIABLES
    nrows,      \* rows the prepared statement produces
    failAt,     \* the step() call at which the engine reports an error (0: never)
    nsteps,     \* sqlite3_step calls made so far
    pos,        \* the row positioned (0: none)
    the_end,    \* iterator::the_end
    ipc,        \* position of the range-for loop
    visited,    \* pos at each execution of the loop body
    stepped     \* the rows for which step() returned true

txvars == <<life, db_, done_, own, etxn, pc, call, last>>
itvars == <<nrows, failAt, nsteps, pos, the_end, ipc, visited, stepped>>

\* -------- Statement: the owned handle
VARIABLES
    slife,      \* slife[o]: "none" | "live" | "moved" (living, moved-from) | "dead"
    stmt_,      \* Statement::stmt_ (a handle or NULL)
    hout,       \* engine: prepared-statement handles handed out so far (1..hout)
    hfin,       \* engine: hfin[h] sqlite3_finalize calls made on handle h
    olast       \* what the last step did

ovars == <<slife, stmt_, hout, hfin, olast>>

\* -------- Statement: parameters
VARIABLES
    bst,        \* the Statement: "none" | "live" | "moved" (moved-from: stmt_ is null)
    bpar,       \* engine: the parameter markers of its statement
    bbound,     \* engine: the value bound to each parameter
    blast       \* what the last step did

bvars == <<bst, bpar, bbound, blast>>

\* -------- DB
VARIABLES
    dlife,      \* dlife[d]: "none" | "live" | "dead"
    ddb,        \* DB::db_ of d (a connection handle or NULL)
    cout,       \* engine: connection handles handed out so far (1..cout)
    cclosed,    \* engine: cclosed[c] sqlite3_close calls made on handle c
    dlast       \* what the last step did

dvars == <<dlife, ddb, cout, cclosed, dlast>>

\* -------- Statement: rows and columns
VARIABLES
    cst,        \* the Statement: "live" | "moved" (moved-from: stmt_ is null)
    ncols,      \* engine: the number of columns of the statement's result
    positioned, \* engine: a row is positioned (the last sqlite3_step said ROW)
    coldata,    \* engine: what sqlite3_column_text gives for column 0 of that row
    esteps,     \* engine: sqlite3_step calls made on the statement
    clast       \* what the last step did

cvars == <<cst, ncols, positioned, coldata, esteps, clast>>

\* -------- test runner
VARIABLES
    argv,           \* the command line after the program's name
    index_,         \* Args::index_ (argv[index_] is the next argument)
    all,            \* run(): bool all
    benchmarks,     \* run(): bool benchmarks
    verbose_,       \* test_storage::verbose_
    listed,         \* the list of tests has been printed
    tests_to_run,   \* run(): std::vector<std::string> tests_to_run
    ti,             \* position of the execution loop in tests_to_run
    executed,       \* the tests whose run() was called, in call order
    ret,            \* what run() returned ("none": it has not)
    rpc             \* "args" | "exec" | "returned" | "aborted" (an exception left run())

rvars == <<argv, index_, all, benchmarks, verbose_, listed, tests_to_run, ti,
           executed, ret, rpc>>

vars == <<txvars, itvars, ovars, bvars, dvars, cvars, rvars>>

\* What the steps of one part of the model leave alone.
nontx == <<itvars, ovars, bvars, dvars, cvars, rvars>>
nonit == <<txvars, ovars, bvars, dvars, cvars, rvars>>
nonown == <<txvars, itvars, bvars, dvars, cvars, rvars>>
nonbind == <<txvars, itvars, ovars, dvars, cvars, rvars>>
nondb == <<txvars, itvars, ovars, bvars, cvars, rvars>>
noncol == <<txvars, itvars, ovars, bvars, dvars, rvars>>
nonrun == <<txvars, itvars, ovars, bvars, dvars, cvars>>

\* ------------------------------------------------------------------ engine

\* sqlite3_prepare_v2: SQLITE_MISUSE on a null connection.
PrepareResults(db) ==
    IF db = NULL THEN {"SQLITE_MISUSE"} ELSE {"SQLITE_OK", "SQLITE_NOMEM"}

\* sqlite3_step of a prepared BEGIN / COMMIT / ROLLBACK on connection db.
StepResults(db, sql, busyOK) ==
    CASE sql = "BEGIN TRANSACTION;" ->
            IF etxn[db] # {} THEN {"SQLITE_ERROR"} ELSE {"SQLITE_DONE"}
      [] sql = "COMMIT;" ->
            IF etxn[db] = {} THEN {"SQLITE_ERROR"}
            ELSE {"SQLITE_DONE", "SQLITE_CONSTRAINT", "SQLITE_IOERR"}
                 \cup (IF busyOK THEN {"SQLITE_BUSY"} ELSE {})
      [] sql = "ROLLBACK;" ->
            IF etxn[db] = {} THEN {"SQLITE_ERROR"}
            ELSE {"SQLITE_DONE", "SQLITE_BUSY"}

\* The engine's answers to one Transaction::exec(sql): <<prepare result, step result>>.
Answers(db, sql, busyOK) ==
    {<<p, s>> : p \in PrepareResults(db) \ {"SQLITE_OK"}, s \in {"none"}}
    \cup (IF db = NULL THEN {}
          ELSE {<<"SQLITE_OK", s>> : s \in StepResults(db, sql, busyOK)})

\* The open transaction of each connection after the statement ran.
EtxnAfter(db, sql, a, t) ==
    IF a[1] # "SQLITE_OK" THEN etxn
    ELSE CASE sql = "BEGIN TRANSACTION;" /\ a[2] = "SQLITE_DONE" ->
                 [etxn EXCEPT ![db] = {t}]
           [] sql = "COMMIT;" /\ a[2] \in {"SQLITE_DONE", "SQLITE_IOERR"} ->
                 [etxn EXCEPT ![db] = {}]
           [] sql = "ROLLBACK;" /\ a[2] = "SQLITE_DONE" ->
                 [etxn EXCEPT ![db] = {}]
           [] OTHER -> etxn

\* The transaction whose changes the engine persists on running the statement.
Persisted(db, sql, a) ==
    IF a[1] = "SQLITE_OK" /\ sql = "COMMIT;" /\ a[2] = "SQLITE_DONE"
    THEN etxn[db] ELSE {}

\* ------------------------------------------------------------ Transaction

\* Transaction::exec: the result it returns for the engine's answers.
exec(a) ==
    IF a[1] # "SQLITE_OK" THEN a[1]
    ELSE IF a[2] # "SQLITE_DONE" THEN a[2]
    ELSE "SQLITE_OK"

\* cnt: the SQLITE_BUSY answers the call has had so far
NoCall == [op |-> "none", self |-> NULL, src |-> NULL, exc |-> FALSE, cnt |-> 0]

\* What a step did: the operation, its object (was: life[o] before the step) and
\* move source, the statement it sent and the connection handle it passed, the
\* result exec returned, the transaction the engine persisted, the outcome
\* ("running" | "return" | "throw") and the thrown Error's code().
Obs(op, o, s, sql, c, r, per, outcome, code) ==
    [op |-> op, self |-> o, was |-> IF o = NULL THEN "none" ELSE life[o],
     src |-> s, sql |-> sql, conn |-> c, res |-> r, persisted |-> per,
     outcome |-> outcome, code |-> IF outcome = "throw" THEN code ELSE "none"]

\* Nothing to observe: no call is in progress or just over.
NoObs ==
    [op |-> "none", self |-> NULL, was |-> "none", src |-> NULL, sql |-> "none",
     conn |-> NULL, res |-> "none", persisted |-> {}, outcome |-> "none",
     code |-> "none"]

\* Objects are named in the order they come into existence.
IsNew(o) == life[o] = "none" /\ \A p \in Objs : p < o => life[p] # "none"

Live(o) == life[o] \in {"fresh", "alive", "rolled", "moved"}

\* life[o] once a member function other than rollback() has been called on o.
Touched(l) == IF l = "fresh" THEN "alive" ELSE l

TxInit ==
    /\ life = [o \in Objs |-> "none"]
    /\ db_ = [o \in Objs |-> NULL]
    /\ done_ = [o \in Objs |-> FALSE]
    /\ own = [o \in Objs |-> {}]
    /\ etxn = [c \in Conns |-> {}]
    /\ pc = "idle"
    /\ call = NoCall
    /\ last = NoObs

\* throw Error(res, "can't begin transaction")
BeginErrorCode(r) == r

\* (mutant) the constructor ignores the result of BEGIN
ConstructNoThrow(r) == "return"

\* Transaction(sqlite3* db): throws unless BEGIN was accepted.
ConstructOutcome(r) == IF r # "SQLITE_OK" THEN "throw" ELSE "return"

\* DB::transaction() -> Transaction(db_.get()); c is the handle the DB holds.
Construct(o, c) ==
    /\ pc = "idle"
    /\ IsNew(o)
    /\ \E a \in Answers(c, "BEGIN TRANSACTION;", FALSE) :
         LET r == exec(a)
             k == ConstructOutcome(r)
         IN  /\ etxn' = EtxnAfter(c, "BEGIN TRANSACTION;", a, o)
             /\ IF k = "throw"
                THEN UNCHANGED <<life, db_, done_, own>>
                ELSE /\ life' = [life EXCEPT ![o] = "fresh"]
                     /\ db_' = [db_ EXCEPT ![o] = c]
                     /\ done_' = [done_ EXCEPT ![o] = FALSE]
                     /\ own' = [own EXCEPT ![o] = IF r = "SQLITE_OK" THEN {o} ELSE {}]
             /\ last' = Obs("construct", o, NULL, "BEGIN TRANSACTION;", c, r, {}, k,
                             BeginErrorCode(r))
    /\ pc' = "over"
    /\ UNCHANGED call

\* The guard of both move operations: if (db_ && !done_) commit();
Armed(db, done) == db # NULL /\ ~done

\* (mutant) the source keeps its connection
MovedFromKeeps(db) == db

\* t.db_ = nullptr
MovedFromDb(db) == NULL

\* db_ = t.db_; done_ = t.done_; t.db_ = nullptr;  (dn: done_ as it is by then)
Transfer(d, s, dn) ==
    /\ db_' = [[db_ EXCEPT ![d] = db_[s]] EXCEPT ![s] = MovedFromDb(db_[s])]
    /\ done_' = [dn EXCEPT ![d] = dn[s]]
    /\ own' = [[own EXCEPT ![d] = own[s]] EXCEPT ![s] = {}]
    /\ life' = [[life EXCEPT ![d] = IF life[s] = "moved" THEN "moved" ELSE "alive"]
                     EXCEPT ![s] = "moved"]

\* Transaction(Transaction&& t): the guard reads the members' default
\* initializers (db_ = nullptr, done_ = false), so commit() is never called.
MoveCtor(d, s) ==
    /\ pc = "idle"
    /\ IsNew(d)
    /\ Live(s)
    /\ ~Armed(NULL, FALSE)
    /\ Transfer(d, s, done_)
    /\ last' = Obs("move_ctor", d, s, "none", NULL, "none", {}, "return", "none")
    /\ pc' = "over"
    /\ UNCHANGED <<etxn, call>>

\* (mutant) operator= commits with try_commit(false)
AssignExcFalse == FALSE

\* operator=(Transaction&&) calls commit(): try_commit(true).
AssignExc == TRUE

\* operator=(Transaction&& t); s = d is a self-move.
MoveAssign(d, s) ==
    /\ pc = "idle"
    /\ Live(d)
    /\ Live(s)
    /\ IF Armed(db_[d], done_[d])
       THEN /\ pc' = "try_commit"
            /\ call' = [op |-> "assign", self |-> d, src |-> s, exc |-> AssignExc, cnt |-> 0]
            /\ life' = [life EXCEPT ![d] = Touched(life[d])]
            /\ last' = Obs("assign", d, s, "none", NULL, "none", {}, "running", "none")
            /\ UNCHANGED <<db_, done_, own>>
       ELSE /\ Transfer(d, s, done_)
            /\ last' = Obs("assign", d, s, "none", NULL, "none", {}, "return", "none")
            /\ pc' = "over"
            /\ UNCHANGED call
    /\ UNCHANGED etxn

\* commit(): try_commit(true)
Commit(o) ==
    /\ pc = "idle"
    /\ Live(o)
    /\ pc' = "try_commit"
    /\ call' = [op |-> "commit", self |-> o, src |-> NULL, exc |-> TRUE, cnt |-> 0]
    /\ life' = [life EXCEPT ![o] = Touched(life[o])]
    /\ last' = Obs("commit", o, NULL, "none", NULL, "none", {}, "running", "none")
    /\ UNCHANGED <<db_, done_, own, etxn>>

\* (mutant) the destructor commits with the throwing commit
DtorExcThrows == TRUE

\* The argument ~Transaction passes to try_commit.
DtorExc == FALSE

\* ~Transaction(): try_commit(false), whatever db_ and done_ are.
Destroy(o) ==
    /\ pc = "idle"
    /\ Live(o)
    /\ pc' = "try_commit"
    /\ call' = [op |-> "dtor", self |-> o, src |-> NULL, exc |-> DtorExc, cnt |-> 0]
    /\ last' = Obs("dtor", o, NULL, "none", NULL, "none", {}, "running", "none")
    /\ UNCHANGED <<life, db_, done_, own, etxn>>

\* throw Error(res, "commit failed")
CommitErrorCode(r) == r

\* (mutant) every failure is retried, not only SQLITE_BUSY
TryCommitRetryAll(r, exc) ==
    IF r = "SQLITE_OK" THEN "true" ELSE "retry"

\* (mutant) no retry: SQLITE_BUSY is handled like any other failure
TryCommitNoRetry(r, exc) ==
    IF r = "SQLITE_OK" THEN "true"
    ELSE IF exc THEN "throw" ELSE "false"

\* (mutant) a failure other than SQLITE_BUSY is never thrown
TryCommitSwallow(r, exc) ==
    IF r = "SQLITE_OK" THEN "true"
    ELSE IF r # "SQLITE_BUSY" THEN "false"
    ELSE "retry"

\* (mutant) done_ is set whenever the loop is left, also by throwing
DoneAfterAlways(k, d) == k # "retry"

\* done_ after a pass of try_commit's loop: done_ = true only before return true.
DoneAfter(k, d) == IF k = "true" THEN TRUE ELSE d

\* One pass of try_commit's for (;;) on the result r of exec("COMMIT;"):
\* "true" / "false": return that; "throw"; "retry": go round again.
TryCommitResult(r, exc) ==
    IF r = "SQLITE_OK" THEN "true"
    ELSE IF r # "SQLITE_BUSY" THEN (IF exc THEN "throw" ELSE "false")
    ELSE "retry"

TryCommitStep ==
    /\ pc = "try_commit"
    /\ \E a \in Answers(db_[call.self], "COMMIT;", call.cnt < MaxBusy) :
         LET o == call.self
             r == exec(a)
             k == TryCommitResult(r, call.exc)
             n == IF r = "SQLITE_BUSY" THEN call.cnt + 1 ELSE call.cnt
             dn == [done_ EXCEPT ![o] = DoneAfter(k, done_[o])]
             out == IF k = "throw" THEN "throw" ELSE "return"
         IN  /\ etxn' = EtxnAfter(db_[o], "COMMIT;", a, o)
             /\ IF k = "retry"
                THEN /\ pc' = "try_commit"
                     /\ call' = [call EXCEPT !.cnt = n]
                     /\ last' = Obs(call.op, o, call.src, "COMMIT;", db_[o], r, {}, "running", "none")
                     /\ UNCHANGED <<life, db_, done_, own>>
                ELSE /\ pc' = "over"
                     /\ call' = NoCall
                     /\ last' = Obs(call.op, o, call.src, "COMMIT;", db_[o], r,
                                      Persisted(db_[o], "COMMIT;", a), out,
                                      CommitErrorCode(r))
                     /\ CASE call.op = "commit" ->
                               /\ done_' = dn
                               /\ UNCHANGED <<life, db_, own>>
                          [] call.op = "dtor" ->
                               \* the object is gone: its members hold nothing
                               /\ life' = [life EXCEPT ![o] = "dead"]
                               /\ db_' = [db_ EXCEPT ![o] = NULL]
                               /\ done_' = [done_ EXCEPT ![o] = FALSE]
                               /\ own' = [own EXCEPT ![o] = {}]
                          [] call.op = "assign" ->
                               IF k = "throw"
                               THEN UNCHANGED <<life, db_, done_, own>>
                               ELSE Transfer(o, call.src, dn)


\* throw Error(res, "rollback failed")
RollbackErrorCode(r) == r

\* (mutant) SQLITE_BUSY is not reported
RollbackIgnoreBusy(r) ==
    IF r \notin {"SQLITE_OK", "SQLITE_BUSY"} THEN "throw" ELSE "return"

\* rollback(): throws unless ROLLBACK was accepted.
RollbackOutcome(r) == IF r # "SQLITE_OK" THEN "throw" ELSE "return"

Rollback(o) ==
    /\ pc = "idle"
    /\ Live(o)
    /\ \E a \in Answers(db_[o], "ROLLBACK;", TRUE) :
         LET r == exec(a)
             k == RollbackOutcome(r)
         IN  /\ etxn' = EtxnAfter(db_[o], "ROLLBACK;", a, o)
             /\ done_' = IF k = "return" THEN [done_ EXCEPT ![o] = TRUE] ELSE done_
             /\ last' = Obs("rollback", o, NULL, "ROLLBACK;", db_[o], r, {}, k,
                             RollbackErrorCode(r))
    /\ life' = [life EXCEPT ![o] = IF life[o] = "moved" THEN "moved" ELSE "rolled"]
    /\ pc' = "over"
    /\ UNCHANGED <<db_, own, call>>

DoConstruct == (\E o \in Objs, c \in Conns \cup {NULL} : Construct(o, c)) /\ UNCHANGED nontx
DoMoveCtor == (\E d \in Objs, s \in Objs : MoveCtor(d, s)) /\ UNCHANGED nontx
DoMoveAssign == (\E d \in Objs, s \in Objs : MoveAssign(d, s)) /\ UNCHANGED nontx
DoCommit == (\E o \in Objs : Commit(o)) /\ UNCHANGED nontx
DoRollback == (\E o \in Objs : Rollback(o)) /\ UNCHANGED nontx
DoDestroy == (\E o \in Objs : Destroy(o)) /\ UNCHANGED nontx
DoTryCommit == TryCommitStep /\ UNCHANGED nontx

\* The caller has the call's return value or caught its Error and goes on.
Return ==
    /\ pc = "over"
    /\ pc' = "idle"
    /\ last' = NoObs
    /\ UNCHANGED <<life, db_, done_, own, etxn, call>>

DoReturn == Return /\ UNCHANGED nontx

\* ---------------------------------------------------------------- Statement

\* sqlite3_step on the prepared statement: the engine's next result.
StmtStepResult ==
    IF failAt = nsteps + 1 THEN "SQLITE_ERROR"
    ELSE IF nsteps < nrows THEN "SQLITE_ROW"
    ELSE "SQLITE_DONE"

\* (mutant) SQLITE_BUSY is taken for the end of the rows
StepOutcomeBusyFalse(r) ==
    IF r = "SQLITE_ROW" THEN "true"
    ELSE IF r \in {"SQLITE_DONE", "SQLITE_BUSY"} THEN "false"
    ELSE "throw"

\* Statement::step(): "true" / "false": the value returned; "throw".
StepOutcome(r) ==
    IF r = "SQLITE_ROW" THEN "true"
    ELSE IF r = "SQLITE_DONE" THEN "false"
    ELSE "throw"

\* iterator::operator!=: !(it.the_end && the_end)
NotEqual(a, b) == ~(b /\ a)

\* begin(): iterator{*this, false};  end(): iterator{*this, true}
BeginTheEnd == FALSE
EndTheEnd == TRUE

ItInit ==
    /\ nrows \in 0..MaxRows
    /\ failAt \in 0..(MaxRows + 1)
    /\ nsteps = 0
    /\ pos = 0
    /\ the_end = FALSE
    /\ ipc = "begin"
    /\ visited = <<>>
    /\ stepped = <<>>

ItFixed ==
    /\ nrows = 0 /\ failAt = 0 /\ nsteps = 0 /\ pos = 0
    /\ the_end = FALSE /\ ipc = "begin" /\ visited = <<>> /\ stepped = <<>>

\* for (auto& row : stmt): auto it = stmt.begin();
ForBegin ==
    /\ ipc = "begin"
    /\ the_end' = BeginTheEnd
    /\ ipc' = "test"
    /\ UNCHANGED <<nrows, failAt, nsteps, pos, visited, stepped, nonit>>

\* it != stmt.end()
ForTest ==
    /\ ipc = "test"
    /\ ipc' = IF NotEqual(the_end, EndTheEnd) THEN "body" ELSE "done"
    /\ UNCHANGED <<nrows, failAt, nsteps, pos, the_end, visited, stepped, nonit>>

\* auto& row = *it; the loop body reads the statement as it is positioned
ForBody ==
    /\ ipc = "body"
    /\ visited' = Append(visited, pos)
    /\ ipc' = "incr"
    /\ UNCHANGED <<nrows, failAt, nsteps, pos, the_end, stepped, nonit>>

\* ++it: if (!stmt.step()) the_end = true;
ForIncr ==
    /\ ipc = "incr"
    /\ LET k == StepOutcome(StmtStepResult) IN
         /\ nsteps' = nsteps + 1
         /\ pos' = IF k = "true" THEN nsteps + 1 ELSE 0
         /\ stepped' = IF k = "true" THEN Append(stepped, nsteps + 1) ELSE stepped
         /\ the_end' = IF k = "false" THEN TRUE ELSE the_end
         /\ ipc' = IF k = "throw" THEN "thrown" ELSE "test"
    /\ UNCHANGED <<nrows, failAt, visited, nonit>>

\* ------------------------------------------------- Statement: the owned handle

\* sqlite3_prepare_v2 as DB::prepare calls it.
StmtPrepareResults == {"SQLITE_OK", "SQLITE_ERROR"}

\* The parameter markers of a statement text, by position: "?" is anonymous;
\* a named parameter occurs at one position.
Marks == {"?", ":a"}

ParamLists ==
    {p \in UNION {[1..k -> Marks] : k \in 0..MaxParams} :
        \A i, j \in DOMAIN p : (i < j /\ p[i] = p[j]) => p[i] = "?"}

\* The values of prepare(sql, a1..aN), N up to one more than a statement takes.
Vals == {"x", "y"}
ArgLists == UNION {[1..k -> Vals] : k \in 0..(MaxParams + 1)}

\* A parameter nothing was bound to (the engine's default binding).
Unbound == "null"

\* sqlite3_bind_*(stmt, i, x); nomem: the engine runs out of memory in this call.
BindResult(h, par, i, nomem) ==
    IF h = NULL THEN "SQLITE_MISUSE"
    ELSE IF i < 1 \/ i > Len(par) THEN "SQLITE_RANGE"
    ELSE IF nomem THEN "SQLITE_NOMEM"
    ELSE "SQLITE_OK"

\* Statement::bind(unsigned pos, x): throws unless the engine accepted the binding.
BindOutcome(r) == IF r # "SQLITE_OK" THEN "throw" ELSE "return"

\* (mutant) bind_all passes the same position on
NextIdxSame(idx) == idx

\* bind_all(stmt, idx + 1, args...)
NextIdx(idx) == idx + 1

\* DB::bind_all(stmt, idx, x, args...): binds args from position idx on; fail is
\* the position at which the engine runs out of memory (0: never). Gives the
\* result that ended it, the bindings then, and the positions passed to the
\* engine in call order.
RECURSIVE bind_all(_, _, _, _, _, _, _)
bind_all(h, par, idx, args, fail, bnd, calls) ==
    IF args = <<>>
    THEN [res |-> "SQLITE_OK", bound |-> bnd, calls |-> calls]
    ELSE LET r == BindResult(h, par, idx, idx = fail) IN
         IF BindOutcome(r) = "throw"
         THEN [res |-> r, bound |-> bnd, calls |-> Append(calls, idx)]
         ELSE bind_all(h, par, NextIdx(idx), Tail(args), fail,
                       [bnd EXCEPT ![idx] = Head(args)], Append(calls, idx))

\* No parameter of a statement just prepared is bound.
NoBindings(par) == [i \in DOMAIN par |-> Unbound]

\* DB::prepare(sql, args...): Statement st = prepare(sql); bind_all(st, 1, args...);
\* pr is the engine's answer to prepare. "throw" / "return", with the result.
PrepareRun(h, par, args, fail, pr) ==
    IF pr # "SQLITE_OK"
    THEN [res |-> pr, bound |-> <<>>, calls |-> <<>>]
    ELSE bind_all(h, par, 1, args, fail, NoBindings(par), <<>>)

SObjs == 1..NumStmts
Handles == 1..NumHandles

OObs(op, o, s, h, r, outcome) ==
    [op |-> op, self |-> o, src |-> s, h |-> h, res |-> r, outcome |-> outcome]

OwnInit ==
    /\ slife = [o \in SObjs |-> "none"]
    /\ stmt_ = [o \in SObjs |-> NULL]
    /\ hout = 0
    /\ hfin = [h \in Handles |-> 0]
    /\ olast = OObs("none", NULL, NULL, NULL, "none", "none")

SIsNew(o) == slife[o] = "none" /\ \A p \in SObjs : p < o => slife[p] # "none"
SLive(o) == slife[o] \in {"live", "moved"}

\* unique_ptr<sqlite3_stmt, STMTFinalizer> gives up pointer h: the deleter calls
\* sqlite3_finalize(h) unless h is null.
Finalize(fin, h) ==
    IF h = NULL THEN fin ELSE [fin EXCEPT ![h] = @ + 1]

\* (mutant) the source of a move keeps its pointer
StmtMovedFromKeeps(h) == h

\* unique_ptr's move: the source is left holding nullptr.
StmtMovedFrom(h) == NULL

\* bind_all threw inside prepare(sql, args...): the local Statement st is destroyed.
StUnwind(fin, h) == Finalize(fin, h)

\* DB::prepare(sql) and DB::prepare(sql, args...) -> a new Statement o.
SPrepare(o) ==
    /\ SIsNew(o)
    /\ hout < NumHandles
    /\ \E par \in ParamLists, args \in ArgLists, pr \in StmtPrepareResults :
       \E fail \in 0..Len(args) :
         LET h == hout + 1
             run == PrepareRun(h, par, args, fail, pr)
         IN  IF pr # "SQLITE_OK"
             THEN /\ olast' = OObs("prepare", o, NULL, NULL, run.res, "throw")
                  /\ UNCHANGED <<slife, stmt_, hout, hfin>>
             ELSE /\ hout' = h
                  /\ IF run.res # "SQLITE_OK"
                     THEN /\ hfin' = StUnwind(hfin, h)
                          /\ olast' = OObs("prepare", o, NULL, h, run.res, "throw")
                          /\ UNCHANGED <<slife, stmt_>>
                     ELSE /\ slife' = [slife EXCEPT ![o] = "live"]
                          /\ stmt_' = [stmt_ EXCEPT ![o] = h]
                          /\ olast' = OObs("prepare", o, NULL, h, run.res, "return")
                          /\ UNCHANGED hfin

\* Statement(Statement&& st) = default
SMoveCtor(d, s) ==
    /\ SIsNew(d)
    /\ SLive(s)
    /\ slife' = [slife EXCEPT ![d] = "live", ![s] = "moved"]
    /\ stmt_' = [stmt_ EXCEPT ![d] = stmt_[s], ![s] = StmtMovedFrom(stmt_[s])]
    /\ olast' = OObs("move_ctor", d, s, stmt_[s], "none", "return")
    /\ UNCHANGED <<hout, hfin>>

\* operator=(Statement&& st) = default: stmt_.reset(st.stmt_.release());
\* the handle d held is given up; a self-move changes nothing.
SMoveAssign(d, s) ==
    /\ SLive(d)
    /\ SLive(s)
    /\ IF s = d
       THEN UNCHANGED <<slife, stmt_, hfin>>
       ELSE /\ slife' = [slife EXCEPT ![d] = "live", ![s] = "moved"]
            /\ stmt_' = [stmt_ EXCEPT ![d] = stmt_[s], ![s] = StmtMovedFrom(stmt_[s])]
            /\ hfin' = Finalize(hfin, stmt_[d])
    /\ olast' = OObs("assign", d, s, stmt_[s], "none", "return")
    /\ UNCHANGED hout

\* ~Statement(): stmt_ is destroyed.
SDestroy(o) ==
    /\ SLive(o)
    /\ slife' = [slife EXCEPT ![o] = "dead"]
    /\ stmt_' = [stmt_ EXCEPT ![o] = NULL]
    /\ hfin' = Finalize(hfin, stmt_[o])
    /\ olast' = OObs("dtor", o, NULL, stmt_[o], "none", "return")
    /\ UNCHANGED hout


\* ----------------------------------------------------- Statement: parameters

BObs(op, nm, i, args, par, r, outcome, code, calls) ==
    [op |-> op, name |-> nm, pos |-> i, args |-> args, par |-> par, res |-> r,
     outcome |-> outcome, code |-> IF outcome = "throw" THEN code ELSE "none",
     calls |-> calls]

BindInit ==
    /\ bst = "none"
    /\ bpar = <<>>
    /\ bbound = <<>>
    /\ blast = BObs("none", "none", 0, <<>>, <<>>, "none", "none", "none", <<>>)

\* stmt_.get() of the Statement
BHandle == IF bst = "live" THEN 1 ELSE NULL

\* sqlite3_bind_parameter_index(stmt, name): the position of the parameter with
\* that name, 0 if there is none.
ParamIndex(h, par, nm) ==
    IF h # NULL /\ nm # "?" /\ \E i \in DOMAIN par : par[i] = nm
    THEN CHOOSE i \in DOMAIN par : par[i] = nm
    ELSE 0

\* throw Error(res, "prepare failed") / throw Error(res, "bind failed")
StmtErrorCode(r) == r

\* DB::prepare(sql, args...), as the statement's parameters see it.
BPrepare ==
    /\ bst = "none"
    /\ \E par \in ParamLists, args \in ArgLists, pr \in StmtPrepareResults :
       \E fail \in 0..Len(args) :
         LET run == PrepareRun(1, par, args, fail, pr) IN
         IF run.res # "SQLITE_OK"
         THEN /\ blast' = BObs("prepare", "none", 0, args, par, run.res, "throw",
                               StmtErrorCode(run.res), run.calls)
              /\ UNCHANGED <<bst, bpar, bbound>>
         ELSE /\ bst' = "live"
              /\ bpar' = par
              /\ bbound' = run.bound
              /\ blast' = BObs("prepare", "none", 0, args, par, run.res, "return",
                               "none", run.calls)

\* Statement::bind(unsigned pos, x)
BBindPos ==
    /\ bst \in {"live", "moved"}
    /\ \E i \in 0..(MaxParams + 1), v \in Vals, nomem \in BOOLEAN :
         LET r == BindResult(BHandle, bpar, i, nomem)
             k == BindOutcome(r)
         IN  /\ bbound' = IF k = "return" THEN [bbound EXCEPT ![i] = v] ELSE bbound
             /\ blast' = BObs("bind_pos", "none", i, <<v>>, bpar, r, k,
                              StmtErrorCode(r), <<i>>)
    /\ UNCHANGED <<bst, bpar>>

\* (mutant) the position is not checked
NameUnknownNever(n) == FALSE

\* if (n == 0) throw Error(SQLITE_ERROR, "unknown parameter name '", ...)
NameUnknown(n) == n = 0

\* Statement::bind(const std::string& argname, x)
BBindName ==
    /\ bst \in {"live", "moved"}
    /\ \E nm \in {"?", ":a", ":b"}, v \in Vals, nomem \in BOOLEAN :
         LET n == ParamIndex(BHandle, bpar, nm) IN
         IF NameUnknown(n)
         THEN /\ blast' = BObs("bind_name", nm, n, <<v>>, bpar, "none", "throw",
                               "SQLITE_ERROR", <<>>)
              /\ UNCHANGED bbound
         ELSE LET r == BindResult(BHandle, bpar, n, nomem)
                  k == BindOutcome(r)
              IN  /\ bbound' = IF k = "return" THEN [bbound EXCEPT ![n] = v] ELSE bbound
                  /\ blast' = BObs("bind_name", nm, n, <<v>>, bpar, r, k,
                                   StmtErrorCode(r), <<n>>)
    /\ UNCHANGED <<bst, bpar>>

\* The Statement is the source of a move: it is left with a null stmt_.
BMoveOut ==
    /\ bst = "live"
    /\ bst' = "moved"
    /\ bpar' = <<>>
    /\ bbound' = <<>>
    /\ blast' = BObs("move_out", "none", 0, <<>>, bpar, "none", "return", "none", <<>>)

\* ~Statement()
BDestroy ==
    /\ bst \in {"live", "moved"}
    /\ bst' = "none"
    /\ bpar' = <<>>
    /\ bbound' = <<>>
    /\ blast' = BObs("dtor", "none", 0, <<>>, bpar, "none", "return", "none", <<>>)


\* ------------------------------------------------------------------------ DB

DBs == 1..NumDBs
DbHandles == 1..MaxOpens

\* h: the handle sqlite3_open stored in db (NULL: none)
DObs(op, d, r, h, outcome) ==
    [op |-> op, self |-> d, res |-> r, h |-> h, outcome |-> outcome,
     code |-> IF outcome = "throw" THEN r ELSE "none"]

DbInit ==
    /\ dlife = [d \in DBs |-> "none"]
    /\ ddb = [d \in DBs |-> NULL]
    /\ cout = 0
    /\ cclosed = [c \in DbHandles |-> 0]
    /\ dlast = DObs("none", NULL, "none", NULL, "none")

DIsNew(d) == dlife[d] = "none" /\ \A p \in DBs : p < d => dlife[p] # "none"

\* sqlite3_open(name, &db): <<result, whether a handle is stored in db>>. The
\* engine stores a handle also when it fails, unless it could not allocate one.
OpenAnswers ==
    {<<"SQLITE_OK", TRUE>>, <<"SQLITE_CANTOPEN", TRUE>>, <<"SQLITE_NOMEM", FALSE>>}

\* if ((res = sqlite3_open(...)) != SQLITE_OK) throw Error(res, "sqlite3 error");
OpenOutcome(r) == IF r # "SQLITE_OK" THEN "throw" ELSE "return"

\* unique_ptr<sqlite3, DBCloser> gives up pointer c: the deleter calls
\* sqlite3_close(c) unless c is null.
Close(cl, c) ==
    IF c = NULL THEN cl ELSE [cl EXCEPT ![c] = @ + 1]

\* DB::open(name) on DB d holding old: the handles handed out, the close calls
\* and db_ afterwards.
open(d, old, a) ==
    LET h == IF a[2] THEN cout + 1 ELSE NULL
        k == OpenOutcome(a[1])
    IN  /\ cout' = IF a[2] THEN cout + 1 ELSE cout
        /\ IF k = "throw"
           THEN /\ cclosed' = cclosed
                /\ ddb' = ddb
           ELSE /\ cclosed' = Close(cclosed, old)      \* db_.reset(db)
                /\ ddb' = [ddb EXCEPT ![d] = h]
        /\ dlast' = DObs(IF dlife[d] = "none" THEN "construct" ELSE "open", d, a[1], h, k)

\* DB() / DB(name): open(name) on the new object; if it throws there is no object.
DBConstruct(d) ==
    /\ DIsNew(d)
    /\ cout < MaxOpens
    /\ \E a \in OpenAnswers :
         /\ open(d, NULL, a)
         /\ dlife' = IF OpenOutcome(a[1]) = "throw" THEN dlife
                     ELSE [dlife EXCEPT ![d] = "live"]

\* db.open(name) on a living DB
DBOpen(d) ==
    /\ dlife[d] = "live"
    /\ cout < MaxOpens
    /\ \E a \in OpenAnswers : open(d, ddb[d], a)
    /\ UNCHANGED dlife

\* ~DB(): db_ is destroyed.
DBDestroy(d) ==
    /\ dlife[d] = "live"
    /\ dlife' = [dlife EXCEPT ![d] = "dead"]
    /\ ddb' = [ddb EXCEPT ![d] = NULL]
    /\ cclosed' = Close(cclosed, ddb[d])
    /\ dlast' = DObs("dtor", d, "none", ddb[d], "return")
    /\ UNCHANGED cout


\* ------------------------------------------------ Statement: rows and columns

\* What sqlite3_column_text returns: a null pointer, or a pointer to the bytes
\* of the text (97 'a', 98 'b', 0 NUL) followed by a terminating NUL.
NoData == [ptr |-> FALSE, bytes |-> <<>>]

Texts ==
    {[ptr |-> TRUE, bytes |-> t] : t \in {<<>>, <<97>>, <<97, 98>>, <<97, 0, 98>>}}

CObs(op, idx, r, data, outcome, code, text) ==
    [op |-> op, idx |-> idx, res |-> r, data |-> data, outcome |-> outcome,
     code |-> IF outcome = "throw" THEN code ELSE "none", text |-> text]

ColInit ==
    /\ cst = "live"
    /\ ncols \in 0..MaxCols
    /\ positioned = FALSE
    /\ coldata = NoData
    /\ esteps = 0
    /\ clast = CObs("none", 0, "none", NoData, "none", "none", <<>>)

ColFixed ==
    /\ cst = "live"
    /\ ncols = 0
    /\ positioned = FALSE
    /\ coldata = NoData
    /\ esteps = 0
    /\ clast = CObs("none", 0, "none", NoData, "none", "none", <<>>)

\* stmt_.get()
CHandle == IF cst = "live" THEN 1 ELSE NULL

\* sqlite3_step(stmt): what the engine may answer.
EngineStepResults(h) ==
    IF h = NULL THEN {"SQLITE_MISUSE"}
    ELSE {"SQLITE_ROW", "SQLITE_DONE", "SQLITE_BUSY", "SQLITE_ERROR"}

\* sqlite3_column_count(stmt): 0 for a null statement.
ColumnCount(h) == IF h = NULL THEN 0 ELSE ncols

\* unsigned is UBits wide, int is its two's complement reading: (int)idx
ToInt(idx) == IF idx >= 2 ^ (UBits - 1) THEN idx - 2 ^ UBits ELSE idx

\* The values of an unsigned index.
Unsigneds == 0..(2 ^ UBits - 1)

\* !(!stmt_ || (int)idx >= sqlite3_column_count(stmt_.get()))
IndexInRange(h, idx) == h # NULL /\ ~(ToInt(idx) >= ColumnCount(h))

\* Statement::operator[](unsigned idx)
CIndex ==
    /\ \E idx \in Unsigneds :
         clast' = IF IndexInRange(CHandle, idx)
                  THEN CObs("index", idx, "none", coldata, "value", "none", <<>>)
                  ELSE CObs("index", idx, "none", coldata, "throw", "SQLITE_ERROR", <<>>)
    /\ UNCHANGED <<cst, ncols, positioned, coldata, esteps>>

\* throw Error(res, "execution failed")
ExecErrorCode(r) == r

\* Statement::step()
CStep ==
    /\ esteps < MaxSteps
    /\ \E r \in EngineStepResults(CHandle), d \in Texts \cup {NoData} :
         /\ (r # "SQLITE_ROW" \/ ncols = 0) => d = NoData
         /\ esteps' = esteps + 1
         /\ positioned' = (r = "SQLITE_ROW")
         /\ coldata' = d
         /\ clast' = CObs("step", 0, r, d, StepOutcome(r), ExecErrorCode(r), <<>>)
    /\ UNCHANGED <<cst, ncols>>

\* std::string{data} on a pointer to bytes t: the characters before the first NUL.
CString(t) ==
    LET z == {i \in DOMAIN t : t[i] = 0} IN
    IF z = {} THEN t
    ELSE SubSeq(t, 1, (CHOOSE i \in z : \A j \in z : i <= j) - 1)

\* Statement::exec() on the engine's result r, with d what sqlite3_column_text
\* gives for column 0: the outcome and the text returned.
ExecReturn(h, r, d) ==
    IF r = "SQLITE_DONE" THEN [outcome |-> "text", text |-> <<>>]
    ELSE IF r = "SQLITE_ROW"
         THEN IF ColumnCount(h) # 0
              THEN IF d = NoData THEN [outcome |-> "text", text |-> <<>>]
                   ELSE [outcome |-> "text", text |-> CString(d.bytes)]
              ELSE [outcome |-> "text", text |-> <<>>]
         ELSE [outcome |-> "throw", text |-> <<>>]

\* Statement::exec()
CExec ==
    /\ esteps < MaxSteps
    /\ \E r \in EngineStepResults(CHandle), d \in Texts \cup {NoData} :
         /\ (r # "SQLITE_ROW" \/ ncols = 0) => d = NoData
         /\ LET rv == ExecReturn(CHandle, r, d) IN
              /\ esteps' = esteps + 1
              /\ positioned' = (r = "SQLITE_ROW")
              /\ coldata' = d
              /\ clast' = CObs("exec", 0, r, d, rv.outcome, ExecErrorCode(r), rv.text)
    /\ UNCHANGED <<cst, ncols>>

\* The Statement is the source of a move: it is left with a null stmt_.
CMoveOut ==
    /\ cst = "live"
    /\ cst' = "moved"
    /\ positioned' = FALSE
    /\ coldata' = NoData
    /\ clast' = CObs("move_out", 0, "none", NoData, "return", "none", <<>>)
    /\ UNCHANGED <<ncols, esteps>>


\* ------------------------------------------------------------- test runner

\* test_storage::tests_, in the order std::map iterates it (by name), with the
\* flags each test was registered with.
tests_ ==
    << [name |-> "bench", flags |-> BENCHMARK],
       [name |-> "both",  flags |-> LARGE_TEST + BENCHMARK],
       [name |-> "large", flags |-> LARGE_TEST],
       [name |-> "small", flags |-> 0],
       [name |-> "tiny",  flags |-> 0] >>

TestNames == {tests_[i].name : i \in DOMAIN tests_}

FlagsOf(n) == (CHOOSE i \in DOMAIN tests_ : tests_[i].name = n).flags

\* flags & bit, for a single-bit mask
HasFlag(f, bit) == (f \div bit) % 2 = 1

\* What a command line is made of: options, names of tests, an unknown name.
Tokens ==
    {"-h", "-a", "--all", "-b", "-l", "--list", "-v", "small", "large", "nope"}

RunInit ==
    /\ argv \in UNION {[1..k -> Tokens] : k \in 0..MaxArgv}
    /\ index_ = 1
    /\ all = FALSE
    /\ benchmarks = FALSE
    /\ verbose_ = FALSE
    /\ listed = FALSE
    /\ tests_to_run = <<>>
    /\ ti = 1
    /\ executed = <<>>
    /\ ret = "none"
    /\ rpc = "args"

RunFixed ==
    /\ argv = <<>> /\ index_ = 1 /\ all = FALSE /\ benchmarks = FALSE
    /\ verbose_ = FALSE /\ listed = FALSE /\ tests_to_run = <<>> /\ ti = 1
    /\ executed = <<>> /\ ret = "none" /\ rpc = "args"

\* (mutant) no argument is taken for an option
IsOptNever(t, short_name, long_name) == FALSE

\* Args::arg(short_name, long_name) on the argument t
IsOpt(t, short_name, long_name) == t = short_name \/ t = long_name

\* One pass of while (args) { ... }
ArgStep ==
    /\ rpc = "args"
    /\ index_ <= Len(argv)
    /\ LET t == argv[index_] IN
       /\ index_' = index_ + 1
       /\ IF IsOpt(t, "-h", "--help")
          THEN /\ ret' = "0" /\ rpc' = "returned"
               /\ UNCHANGED <<all, benchmarks, verbose_, listed, tests_to_run>>
          ELSE IF IsOpt(t, "-a", "--all")
          THEN /\ all' = TRUE
               /\ UNCHANGED <<benchmarks, verbose_, listed, tests_to_run, ret, rpc>>
          ELSE IF IsOpt(t, "-b", "--benchmarks")
          THEN /\ benchmarks' = TRUE
               /\ UNCHANGED <<all, verbose_, listed, tests_to_run, ret, rpc>>
          ELSE IF IsOpt(t, "-l", "--list")
          THEN /\ listed' = TRUE      \* the branch has no return statement
               /\ UNCHANGED <<all, benchmarks, verbose_, tests_to_run, ret, rpc>>
          ELSE IF IsOpt(t, "-v", "--verbose")
          THEN /\ verbose_' = TRUE
               /\ UNCHANGED <<all, benchmarks, listed, tests_to_run, ret, rpc>>
          ELSE IF t \notin TestNames
          THEN /\ ret' = "1" /\ rpc' = "returned"
               /\ UNCHANGED <<all, benchmarks, verbose_, listed, tests_to_run>>
          ELSE /\ tests_to_run' = Append(tests_to_run, t)
               /\ UNCHANGED <<all, benchmarks, verbose_, listed, ret, rpc>>
    /\ UNCHANGED <<argv, ti, executed>>

\* The default selection's test on a test registered with flags f.
Selected(f, a, b) ==
    IF HasFlag(f, LARGE_TEST) THEN a
    ELSE IF HasFlag(f, BENCHMARK) THEN b
    ELSE TRUE

\* if (tests_to_run.empty()) { for (const auto& t : tests_) ... }
DefaultSelection(a, b) ==
    LET Sel(t) == Selected(t.flags, a, b)
        chosen == SelectSeq(tests_, Sel)
    IN  [i \in DOMAIN chosen |-> chosen[i].name]

\* The argument loop is over: the default selection, if no test was named.
Select ==
    /\ rpc = "args"
    /\ index_ > Len(argv)
    /\ tests_to_run' = IF tests_to_run = <<>> THEN DefaultSelection(all, benchmarks)
                       ELSE tests_to_run
    /\ rpc' = "exec"
    /\ UNCHANGED <<argv, index_, all, benchmarks, verbose_, listed, ti, executed, ret>>

\* test.second->run() ends normally, by a unittest error (caught: FAILED is
\* printed), or by another exception, which nothing in run() catches.
TestOutcomes == {"ok", "failed", "other"}

\* One pass of for (const auto& name : tests_to_run) { ... }
RunTest ==
    /\ rpc = "exec"
    /\ ti <= Len(tests_to_run)
    /\ executed' = Append(executed, tests_to_run[ti])
    /\ \E k \in TestOutcomes :
         IF k = "other"
         THEN rpc' = "aborted" /\ ti' = ti
         ELSE rpc' = "exec" /\ ti' = ti + 1
    /\ UNCHANGED <<argv, index_, all, benchmarks, verbose_, listed, tests_to_run, ret>>

\* return 0;
Finish ==
    /\ rpc = "exec"
    /\ ti > Len(tests_to_run)
    /\ ret' = "0"
    /\ rpc' = "returned"
    /\ UNCHANGED <<argv, index_, all, benchmarks, verbose_, listed, tests_to_run, ti,
                   executed>>


DoSPrepare == (\E o \in SObjs : SPrepare(o)) /\ UNCHANGED nonown
DoSMoveCtor == (\E d \in SObjs, s \in SObjs : SMoveCtor(d, s)) /\ UNCHANGED nonown
DoSMoveAssign == (\E d \in SObjs, s \in SObjs : SMoveAssign(d, s)) /\ UNCHANGED nonown
DoSDestroy == (\E o \in SObjs : SDestroy(o)) /\ UNCHANGED nonown

DoBPrepare == BPrepare /\ UNCHANGED nonbind
DoBBindPos == BBindPos /\ UNCHANGED nonbind
DoBBindName == BBindName /\ UNCHANGED nonbind
DoBMoveOut == BMoveOut /\ UNCHANGED nonbind
DoBDestroy == BDestroy /\ UNCHANGED nonbind

DoDBConstruct == (\E d \in DBs : DBConstruct(d)) /\ UNCHANGED nondb
DoDBOpen == (\E d \in DBs : DBOpen(d)) /\ UNCHANGED nondb
DoDBDestroy == (\E d \in DBs : DBDestroy(d)) /\ UNCHANGED nondb

DoCIndex == CIndex /\ UNCHANGED noncol
DoCStep == CStep /\ UNCHANGED noncol
DoCExec == CExec /\ UNCHANGED noncol
DoCMoveOut == CMoveOut /\ UNCHANGED noncol

DoArgStep == ArgStep /\ UNCHANGED nonrun
DoSelect == Select /\ UNCHANGED nonrun
DoRunTest == RunTest /\ UNCHANGED nonrun
DoFinish == Finish /\ UNCHANGED nonrun

\* ------------------------------------------------------------ specifications

\* The parts of the model a specification does not exercise stay as they start.
Init ==
    /\ TxInit /\ ItFixed /\ OwnInit /\ BindInit /\ DbInit /\ ColFixed /\ RunFixed

Next ==
    \/ DoConstruct
    \/ DoMoveCtor
    \/ DoMoveAssign
    \/ DoCommit
    \/ DoRollback
    \/ DoDestroy
    \/ DoTryCommit
    \/ DoReturn

Spec == Init /\ [][Next]_vars

\* try_commit is a running loop of synchronous code: it takes its next pass.
FairSpec == Spec /\ WF_vars(DoTryCommit)

\* The range-for loop over a Statement, for every row count and failure point.
IterInit ==
    /\ TxInit /\ ItInit /\ OwnInit /\ BindInit /\ DbInit /\ ColFixed /\ RunFixed

IterNext ==
    \/ ForBegin
    \/ ForTest
    \/ ForBody
    \/ ForIncr

IterSpec == IterInit /\ [][IterNext]_vars

\* Statement objects and the handles they own.
OwnNext ==
    \/ DoSPrepare
    \/ DoSMoveCtor
    \/ DoSMoveAssign
    \/ DoSDestroy

OwnSpec == Init /\ [][OwnNext]_vars

\* One Statement and the parameters of its handle.
BindNext ==
    \/ DoBPrepare
    \/ DoBBindPos
    \/ DoBBindName
    \/ DoBMoveOut
    \/ DoBDestroy

BindSpec == Init /\ [][BindNext]_vars

\* DB objects and the connection handles they own.
DbNext ==
    \/ DoDBConstruct
    \/ DoDBOpen
    \/ DoDBDestroy

DbSpec == Init /\ [][DbNext]_vars

\* One Statement stepped and read, for every column count.
ColSpecInit ==
    /\ TxInit /\ ItFixed /\ OwnInit /\ BindInit /\ DbInit /\ ColInit /\ RunFixed

ColNext ==
    \/ DoCIndex
    \/ DoCStep
    \/ DoCExec
    \/ DoCMoveOut

ColSpec == ColSpecInit /\ [][ColNext]_vars

\* One invocation of the test runner, for every command line.
RunSpecInit ==
    /\ TxInit /\ ItFixed /\ OwnInit /\ BindInit /\ DbInit /\ ColFixed /\ RunInit

RunNext ==
    \/ DoArgStep
    \/ DoSelect
    \/ DoRunTest
    \/ DoFinish

RunSpec == RunSpecInit /\ [][RunNext]_vars

\* ------------------------------------------------------------------ claims

InDtor == pc = "try_commit" /\ call.op = "dtor"

\* The transaction o is obliged to resolve is the one open on its connection.
OwnOpen(o) == own[o] # {} /\ db_[o] # NULL /\ etxn[db_[o]] = own[o]

\* C1 (as claimed): the loop body runs only while a row is positioned, and when
\* the loop is over (normally or by an Error from step()) the rows the body has
\* seen are exactly the rows for which step() returned true, in that order.
Cx_C1 ==
    /\ (ipc = "body" => pos # 0)
    /\ (ipc \in {"done", "thrown"} => visited = stepped)

\* C2: every pass of the destructor of a Transaction on which neither commit()
\* nor rollback() was called sends COMMIT to the object's connection; on
\* SQLITE_BUSY the destructor goes round again; when the object's transaction is
\* the one open on the connection, an accepted COMMIT persists it, and the
\* destructor ends without it persisted only on a result other than OK and BUSY.
Thm_C2 ==
    [][(InDtor /\ life[call.self] = "fresh") =>
         LET o == call.self IN
         /\ last'.sql = "COMMIT;"
         /\ last'.conn = db_[o]
         /\ (last'.res = "SQLITE_BUSY" => pc' = "try_commit")
         /\ (OwnOpen(o) /\ last'.res = "SQLITE_OK" => last'.persisted = own[o])
         /\ (OwnOpen(o) /\ pc' = "over" /\ last'.persisted # own[o]
                => last'.res \notin {"SQLITE_OK", "SQLITE_BUSY"})]_vars

\* C2 witness: the destructor of an untouched Transaction got its COMMIT
\* accepted and the transaction the object began was persisted.
Wit_C2 ==
    /\ last.op = "dtor"
    /\ last.was = "fresh"
    /\ last.res = "SQLITE_OK"
    /\ last.persisted = {last.self}
    /\ life[last.self] = "dead"

\* C3: a destructor never ends by throwing, whatever the engine answered and
\* whatever the object was (fresh, resolved, moved-from); commit() ends by
\* throwing on every result other than OK and BUSY.
Thm_C3 ==
    /\ (last.op = "dtor" => last.outcome # "throw")
    /\ (last.op = "commit" /\ last.res \notin {"none", "SQLITE_OK", "SQLITE_BUSY"}
          => last.outcome = "throw")

\* C3 witness: the engine failed the destructor's COMMIT with SQLITE_IOERR and
\* the destructor returned.
Wit_C3 ==
    /\ last.op = "dtor"
    /\ last.res = "SQLITE_IOERR"
    /\ last.outcome = "return"
    /\ life[last.self] = "dead"

\* C4 (as claimed): the destructor of a Transaction that commit() or rollback()
\* has resolved (done_ is set) sends no statement to the connection.
Cx_C4 ==
    [][(InDtor /\ done_[call.self]) => last'.conn = NULL]_vars

\* C5: commit() returns only on SQLITE_OK, and done_ is then set; it throws only
\* on a result other than OK and BUSY, with that result as the Error's code; on
\* SQLITE_BUSY it neither returns nor throws: it is still in the loop.
Thm_C5 ==
    last.op = "commit" /\ last.sql = "COMMIT;" =>
        /\ (last.outcome = "return" => last.res = "SQLITE_OK" /\ done_[last.self])
        /\ (last.outcome = "throw" =>
               /\ last.res \notin {"SQLITE_OK", "SQLITE_BUSY"}
               /\ last.code = last.res)
        /\ (last.res = "SQLITE_BUSY" =>
               /\ last.outcome = "running"
               /\ pc = "try_commit"
               /\ call.self = last.self)

\* C5 witness: commit() threw the engine's SQLITE_IOERR and the Transaction is
\* not resolved.
Wit_C5 ==
    /\ last.op = "commit"
    /\ last.outcome = "throw"
    /\ last.code = "SQLITE_IOERR"
    /\ ~done_[last.self]

InLoop == pc = "try_commit"

\* C6: the commit loop ends whenever the engine stops answering SQLITE_BUSY (it
\* answers BUSY at most MaxBusy times in a row here), so the program is outside
\* the loop again and again; the loop has no limit of its own: a pass that gets
\* SQLITE_BUSY is always followed by another; and the constructor and rollback()
\* are over after their one statement.
Thm_C6 ==
    /\ []<>~InLoop
    /\ [][(InLoop /\ last'.res = "SQLITE_BUSY") =>
             (pc' = "try_commit" /\ call'.cnt = call.cnt + 1)]_vars
    /\ [][(last'.op \in {"construct", "rollback"}) => (pc = "idle" /\ pc' = "over")]_vars

\* C6 witness: the loop is about to send COMMIT after MaxBusy BUSY answers.
Wit_C6 ==
    /\ InLoop
    /\ call.cnt = MaxBusy
    /\ last.res = "SQLITE_BUSY"

Cx_C8 ==
    [][(InDtor /\ life[call.self] = "rolled" /\ own[call.self] # {}) =>
         last'.persisted \cap own[call.self] = {}]_vars

Holders(t) == {o \in Objs : Live(o) /\ db_[o] # NULL /\ t \in own[o]}

IsTransfer ==
    /\ last'.op \in {"move_ctor", "assign"}
    /\ last'.outcome = "return"
    /\ last'.src # last'.self

\* C9: a moved-from Transaction holds no connection, and its destructor reaches
\* no connection and changes nothing in the engine; a move from s to d leaves d
\* with what s held (connection, done_, obligation) and s with nothing; no
\* transaction is ever held by two objects.
Thm_C9 ==
    /\ [](\A o \in Objs : life[o] = "moved" => db_[o] = NULL /\ own[o] = {})
    /\ [](\A t \in Objs : Cardinality(Holders(t)) <= 1)
    /\ [][(InDtor /\ life[call.self] = "moved") =>
             /\ last'.conn = NULL
             /\ last'.persisted = {}
             /\ etxn' = etxn
             /\ pc' = "over"]_vars
    /\ [][IsTransfer =>
             LET d == last'.self
                 s == last'.src
             IN  /\ db_'[d] = db_[s]
                 /\ done_'[d] = done_[s]
                 /\ own'[d] = own[s]
                 /\ db_'[s] = NULL
                 /\ life'[s] = "moved"
                 /\ \A t \in own[s] : Holders(t)' = {d}]_vars

\* C9 witness: a moved-from Transaction has been destroyed without reaching a
\* connection while another object holds an unresolved transaction.
Wit_C9 ==
    /\ last.op = "dtor"
    /\ last.was = "moved"
    /\ last.conn = NULL
    /\ \E d \in Objs : Live(d) /\ own[d] # {} /\ db_[d] # NULL /\ ~done_[d]
                        /\ etxn[db_[d]] = own[d]

\* C10: a constructor whose BEGIN is not accepted throws an Error with the
\* engine's result and leaves no object, and every COMMIT or ROLLBACK is sent by
\* an object that exists.
Thm_C10 ==
    /\ [][(last'.op = "construct" /\ last'.res # "SQLITE_OK") =>
             /\ last'.outcome = "throw"
             /\ last'.code = last'.res
             /\ life' = life
             /\ db_' = db_
             /\ own' = own]_vars
    /\ [][(last'.sql \in {"COMMIT;", "ROLLBACK;"}) => Live(last'.self)]_vars

\* C10 witness: BEGIN was rejected inside an open transaction; there is no
\* object and the next one gets the same name.
Wit_C10 ==
    /\ last.op = "construct"
    /\ last.res = "SQLITE_ERROR"
    /\ last.outcome = "throw"
    /\ life[last.self] = "none"

\* The living Statements that hold handle h.
Owners(h) == {o \in SObjs : SLive(o) /\ stmt_[o] = h}

\* C11: a handle the engine handed out is held by exactly one living Statement
\* and not finalized, or held by none and finalized exactly once; a handle not
\* handed out is never finalized; destroying a moved-from Statement finalizes
\* nothing; and when prepare(sql, args...) throws in a bind, the handle it got is
\* finalized and no Statement holds it.
Thm_C11 ==
    /\ [](\A h \in Handles :
            IF h <= hout
            THEN \/ (Cardinality(Owners(h)) = 1 /\ hfin[h] = 0)
                 \/ (Owners(h) = {} /\ hfin[h] = 1)
            ELSE Owners(h) = {} /\ hfin[h] = 0)
    /\ [][(olast'.op = "dtor" /\ slife[olast'.self] = "moved") => hfin' = hfin]_vars
    /\ [][(olast'.op = "prepare" /\ olast'.outcome = "throw" /\ olast'.h # NULL) =>
             /\ hfin[olast'.h] = 0
             /\ hfin'[olast'.h] = 1
             /\ \A o \in SObjs : ~(SLive(o)' /\ stmt_'[o] = olast'.h)]_vars

\* C11 witness: the second Statement, which got the first handle by a move, was
\* destroyed and finalized it; the handle of a prepare that failed is
\* finalized too; no Statement is left.
Wit_C11 ==
    /\ olast.op = "dtor"
    /\ olast.self = 2
    /\ olast.h = 1
    /\ hout = 2
    /\ hfin[1] = 1
    /\ hfin[2] = 1
    /\ \A o \in SObjs : ~SLive(o)

\* The living DBs that hold connection handle c.
DbOwners(c) == {d \in DBs : dlife[d] = "live" /\ ddb[d] = c}

\* C12 (as claimed): a connection handle the engine handed out is held by
\* exactly one living DB and not closed, or held by none and closed exactly
\* once, whatever result the engine returned it with.
Cx_C12 ==
    \A c \in DbHandles :
        c <= cout =>
            \/ (Cardinality(DbOwners(c)) = 1 /\ cclosed[c] = 0)
            \/ (DbOwners(c) = {} /\ cclosed[c] = 1)

\* C13: bind(name, value) with a name the engine resolves to no position throws
\* an Error (code SQLITE_ERROR), passes no position to an engine bind function
\* and leaves every binding as it was.
Thm_C13 ==
    [][(blast'.op = "bind_name" /\ ParamIndex(BHandle, bpar, blast'.name) = 0) =>
         /\ blast'.outcome = "throw"
         /\ blast'.code = "SQLITE_ERROR"
         /\ blast'.calls = <<>>
         /\ bbound' = bbound
         /\ bpar' = bpar]_vars

\* C13 witness: bind(":b", v) threw on a live statement that has no parameter
\* ":b", made no engine call, and a value bound before is still bound.
Wit_C13 ==
    /\ blast.op = "bind_name"
    /\ blast.name = ":b"
    /\ blast.outcome = "throw"
    /\ blast.calls = <<>>
    /\ bst = "live"
    /\ \E i \in DOMAIN bbound : bbound[i] # Unbound

\* C18: prepare(sql, a1..aN) passes the positions 1, 2, ... to the engine's bind
\* in that order, each once and none beyond N; when it returns, the Statement
\* exists, all N were bound, parameter i holds a_i and the parameters after N
\* hold nothing; when N exceeds the statement's parameter count it throws; and
\* when it throws there is no Statement.
Thm_C18 ==
    [][(blast'.op = "prepare") =>
         LET a == blast'.args
             c == blast'.calls
             N == Len(a)
             np == Len(blast'.par)
         IN  /\ Len(c) <= N
             /\ \A i \in DOMAIN c : c[i] = i
             /\ (blast'.outcome = "return" =>
                    /\ Len(c) = N
                    /\ bst' = "live"
                    /\ bpar' = blast'.par
                    /\ \A i \in 1..np : bbound'[i] = IF i <= N THEN a[i] ELSE Unbound)
             /\ (N > np => blast'.outcome = "throw")
             /\ (blast'.outcome = "throw" => bst' = "none" /\ blast'.code = blast'.res)]_vars

\* C18 witness: prepare(sql, a1, a2) with different values returned, after the
\* binds of positions 1 and 2 in that order; parameter 1 holds a1, parameter 2 a2.
Wit_C18 ==
    /\ blast.op = "prepare"
    /\ blast.outcome = "return"
    /\ Len(blast.args) = 2
    /\ blast.args[1] # blast.args[2]
    /\ blast.calls = <<1, 2>>
    /\ bst = "live"
    /\ bbound = blast.args

\* C14 (as claimed): operator[] throws for every unsigned idx at or above the
\* column count and returns a Value for every idx below it.
Cx_C14 ==
    clast.op = "index" =>
        /\ (clast.idx >= ColumnCount(CHandle) => clast.outcome = "throw")
        /\ (clast.idx < ColumnCount(CHandle) => clast.outcome = "value")

\* C15 (as claimed): operator[] with an index below the column count throws
\* whenever no row is positioned.
Cx_C15 ==
    (clast.op = "index" /\ clast.idx < ColumnCount(CHandle) /\ ~positioned)
        => clast.outcome = "throw"

\* C16: step() makes one sqlite3_step call; it returns true exactly on ROW and
\* false exactly on DONE, and on every other result (SQLITE_BUSY too) it throws
\* an Error whose code is that result.
Thm_C16 ==
    [][(clast'.op = "step") =>
         /\ esteps' = esteps + 1
         /\ (clast'.outcome = "true" <=> clast'.res = "SQLITE_ROW")
         /\ (clast'.outcome = "false" <=> clast'.res = "SQLITE_DONE")
         /\ (clast'.res \notin {"SQLITE_ROW", "SQLITE_DONE"} =>
                /\ clast'.outcome = "throw"
                /\ clast'.code = clast'.res)
         /\ positioned' = (clast'.outcome = "true")]_vars

\* C16 witness: the engine answered SQLITE_BUSY to the statement's second step;
\* step() threw it after that one call.
Wit_C16 ==
    /\ clast.op = "step"
    /\ clast.res = "SQLITE_BUSY"
    /\ clast.outcome = "throw"
    /\ clast.code = "SQLITE_BUSY"
    /\ esteps = 2

\* C17 (as claimed): exec() returns empty text on DONE; on ROW the text of
\* column 0, or empty text if there is no column or no data pointer; and throws
\* the engine's result otherwise.
Cx_C17 ==
    clast.op = "exec" =>
        /\ (clast.res = "SQLITE_DONE" => clast.outcome = "text" /\ clast.text = <<>>)
        /\ (clast.res = "SQLITE_ROW" =>
               /\ clast.outcome = "text"
               /\ clast.text = IF ncols = 0 \/ ~clast.data.ptr THEN <<>>
                               ELSE clast.data.bytes)
        /\ (clast.res \notin {"SQLITE_DONE", "SQLITE_ROW"} =>
               clast.outcome = "throw" /\ clast.code = clast.res)

\* The command line holds options only, and none of them is -h / --help.
OptionsOnly ==
    \A i \in DOMAIN argv : argv[i] \in {"-a", "--all", "-b", "--benchmarks",
                                        "-l", "--list", "-v", "--verbose"}

Given(short_name, long_name) ==
    \E i \in DOMAIN argv : argv[i] \in {short_name, long_name}

\* The registered tests, in name order, that satisfy Want.
TestsWhere(Want(_)) ==
    LET chosen == SelectSeq(tests_, Want)
    IN  [i \in DOMAIN chosen |-> chosen[i].name]

IsSmall(t) == ~HasFlag(t.flags, LARGE_TEST) /\ ~HasFlag(t.flags, BENCHMARK)
IsAny(t) == TRUE

\* C19 (as claimed): once the list of tests has been printed for -l / --list, no
\* test is executed.
Cx_C19 == listed => executed = <<>>

\* C20 (as claimed): with an empty command line exactly the small tests have
\* been run when run() returns, and with options only, --all or -a among them,
\* exactly the registered tests, each once.
Cx_C20 ==
    rpc = "returned" =>
        /\ (argv = <<>> => executed = TestsWhere(IsSmall))
        /\ (OptionsOnly /\ Given("-a", "--all") => executed = TestsWhere(IsAny))

\* C21: a commit() that throws changes no member of any Transaction: done_ and
\* db_ are as before, so an Active object (db_ set, done_ false) is still Active
\* and still obliged to its transaction, and nothing changes until the next
\* call; every later pass of commit() or of the destructor on an Active object
\* sends COMMIT to that same connection, and rollback() sends ROLLBACK to it,
\* and when the object's transaction is still the open one an accepted COMMIT
\* persists it and an accepted ROLLBACK ends it.
Thm_C21 ==
    /\ [][(last'.op = "commit" /\ last'.outcome = "throw") =>
             LET o == last'.self IN
             /\ db_' = db_ /\ done_' = done_ /\ own' = own /\ life' = life
             /\ (Armed(db_[o], done_[o]) => Armed(db_'[o], done_'[o]))]_vars
    /\ [][(pc = "over" /\ last.op = "commit" /\ last.outcome = "throw") =>
             (db_' = db_ /\ done_' = done_ /\ own' = own /\ etxn' = etxn)]_vars
    /\ [][(pc = "try_commit" /\ call.op \in {"commit", "dtor"}
              /\ Armed(db_[call.self], done_[call.self])) =>
             LET o == call.self IN
             /\ last'.sql = "COMMIT;"
             /\ last'.conn = db_[o]
             /\ (OwnOpen(o) /\ last'.res = "SQLITE_OK" => last'.persisted = own[o])]_vars
    /\ [][(last'.op = "rollback" /\ Armed(db_[last'.self], done_[last'.self])) =>
             LET o == last'.self IN
             /\ last'.sql = "ROLLBACK;"
             /\ last'.conn = db_[o]
             /\ (OwnOpen(o) /\ last'.res = "SQLITE_OK" => etxn'[db_[o]] = {})]_vars

\* C21 witness: commit() has thrown the engine's SQLITE_CONSTRAINT on an Active
\* Transaction: the object is still Active and its transaction is still open on
\* its connection.
Wit_C21 ==
    /\ last.op = "commit"
    /\ last.outcome = "throw"
    /\ last.code = "SQLITE_CONSTRAINT"
    /\ Armed(db_[last.self], done_[last.self])
    /\ OwnOpen(last.self)

\* C22: move-assigning onto an Active Transaction d first commits d's own
\* transaction with the throwing commit: the call enters the commit loop with
\* exc = true and nothing is handed over while it is in the loop; every pass
\* sends COMMIT to d's connection; the call returns only on SQLITE_OK, and then d
\* has what the source held and the source holds nothing; it throws on every
\* result other than OK and BUSY, and then no member of either object has
\* changed: the source is as armed as before and d keeps its own transaction.
Thm_C22 ==
    /\ [][(pc = "idle" /\ last'.op = "assign"
              /\ Armed(db_[last'.self], done_[last'.self])) =>
             /\ pc' = "try_commit"
             /\ call'.self = last'.self
             /\ call'.exc = TRUE
             /\ db_' = db_ /\ done_' = done_ /\ own' = own /\ etxn' = etxn]_vars
    /\ [][(pc = "try_commit" /\ call.op = "assign") =>
             LET d == call.self
                 s == call.src
             IN  /\ last'.sql = "COMMIT;"
                 /\ last'.conn = db_[d]
                 /\ (OwnOpen(d) /\ last'.res = "SQLITE_OK" => last'.persisted = own[d])
                 /\ (last'.res = "SQLITE_BUSY" =>
                        /\ pc' = "try_commit"
                        /\ db_' = db_ /\ done_' = done_ /\ own' = own)
                 /\ (last'.res \notin {"SQLITE_OK", "SQLITE_BUSY"} =>
                        /\ last'.outcome = "throw"
                        /\ last'.code = last'.res
                        /\ db_' = db_ /\ done_' = done_ /\ own' = own /\ life' = life
                        /\ Armed(db_'[s], done_'[s]) = Armed(db_[s], done_[s])
                        /\ Armed(db_'[d], done_'[d]))
                 /\ (last'.res = "SQLITE_OK" =>
                        /\ last'.outcome = "return"
                        /\ (s # d => /\ db_'[d] = db_[s]
                                      /\ done_'[d] = done_[s]
                                      /\ own'[d] = own[s]
                                      /\ db_'[s] = NULL
                                      /\ own'[s] = {}))]_vars

\* C22 witness: the commit of an Active destination failed with SQLITE_IOERR
\* inside a move assignment from another Active Transaction: the assignment
\* threw, the source is still armed and the destination still holds its own.
Wit_C22 ==
    /\ last.op = "assign"
    /\ last.outcome = "throw"
    /\ last.code = "SQLITE_IOERR"
    /\ last.src # last.self
    /\ Armed(db_[last.src], done_[last.src])
    /\ own[last.src] = {last.src}
    /\ Armed(db_[last.self], done_[last.self])
    /\ own[last.self] = {last.self}

Options ==
    {"-h", "--help", "-a", "--all", "-b", "--benchmarks", "-l", "--list",
     "-v", "--verbose"}

\* Argument i is not an option and names no registered test.
IsUnknownName(i) == argv[i] \notin Options /\ argv[i] \notin TestNames

IsHelp(i) == argv[i] \in {"-h", "--help"}

\* Argument i is the first that ends the argument loop.
FirstStop(i) ==
    /\ i \in DOMAIN argv
    /\ (IsHelp(i) \/ IsUnknownName(i))
    /\ \A j \in 1..(i - 1) : ~(IsHelp(j) \/ IsUnknownName(j))

\* C23 (as claimed): when run() has returned, it returned 1 without executing a
\* test if some argument is an unregistered name, and 0 otherwise.
Cx_C23 ==
    rpc = "returned" =>
        IF \E i \in DOMAIN argv : IsUnknownName(i)
        THEN ret = "1" /\ executed = <<>>
        ELSE ret = "0"

\* C23 (amended): if an unregistered name comes before any -h / --help, no test
\* is ever executed and run() returns 1, whatever was named before it; if
\* -h / --help comes first, no test is executed and run() returns 0, also when
\* an unregistered name follows; in every other case run() returns 0 whenever
\* it returns, whatever the tests did.
Thm_C23 ==
    /\ \A i \in DOMAIN argv :
          FirstStop(i) =>
             /\ executed = <<>>
             /\ rpc \in {"args", "returned"}
             /\ (rpc = "returned" => ret = IF IsUnknownName(i) THEN "1" ELSE "0")
    /\ ((\A i \in DOMAIN argv : ~FirstStop(i)) /\ rpc = "returned" => ret = "0")

\* C23 witness: run() returned 1 for "small nope": the registered test named
\* first was not executed.
Wit_C23 ==
    /\ argv = <<"small", "nope">>
    /\ rpc = "returned"
    /\ ret = "1"
    /\ executed = <<>>
    /\ tests_to_run = <<"small">>
====
